---- MODULE Spec2Model ----
(***************************************************************************)
(* Model of the cost-based pathfinder of zoc (src/src/core/pathfinder.rs). *)
(* A Pathfinder owns a flat tile array (cost, parent direction) and a FIFO *)
(* work queue.  fill_map relaxes the costs from a unit's position;         *)
(* get_path walks the parent directions back from a destination.           *)
(***************************************************************************)
EXTENDS Integers, Sequences, FiniteSets, TLC

VARIABLES
    size,       \* Pathfinder.map.size (and the size of state.map): [w, h]
    terrain,    \* state.map: the terrain kind of every in-board position
    tiles,      \* Pathfinder.map.tiles: flat index -> [cost, parent]
    queue,      \* Pathfinder.queue: sequence of MapPos
    unit,       \* the unit argument of the running / last fill_map
    units,      \* positions p of the state with state.units_at(p) non-empty
    pc,         \* "idle" | "while" | "for" | "panic"
    pos,        \* the position popped by the running loop iteration
    i,          \* the loop index of try_to_push_neighbours
    path,       \* the outcome of the last get_path the caller still holds
    fills,      \* the number of fill_map calls made on this Pathfinder
    core_event  \* the last CoreEvent constructed (core/src/event.rs)

vars == <<size, terrain, tiles, queue, unit, units, pc, pos, i, path, fills,
          core_event>>

----------------------------------------------------------------------------
(* Bounds of the explored inputs.                                          *)

\* infantry move points range over 0..MaxMovePoints
MaxMovePoints == 3
\* at most this many fill_map calls are made on one Pathfinder
MaxFills == 2
\* unit identifiers range over 1..MaxUnitId
MaxUnitId == 2

Sizes == { [w |-> 2, h |-> 2], [w |-> 3, h |-> 2] }

\* the 5x5 scenario of the specification
ExampleSize == [w |-> 5, h |-> 5]

\* a 4x2 map on which the cheapest way to a cell is not the one with the
\* fewest steps: Trees at (1, 0), a vehicle starting at (0, 0)
DetourSize == [w |-> 4, h |-> 2]

Terrain == {"Plain", "Trees", "Building"}
UnitClass == {"Infantry", "Vehicle"}

----------------------------------------------------------------------------
(* core::dir::Dir: the six hex directions on offset coordinates.           *)

DIR_TO_POS_DIFF ==
    << << <<1, -1>>, <<1, 0>>, <<1, 1>>, <<0, 1>>, <<-1, 0>>, <<0, -1>> >>,
       << <<0, -1>>, <<1, 0>>, <<0, 1>>, <<-1, 1>>, <<-1, 0>>, <<-1, -1>> >> >>

Dirs == 0..5

from_int(n) == n

get_neighbour_pos(p, dir) ==
    LET is_odd_row == p[2] % 2 = 1
        subtable_index == IF is_odd_row THEN 1 ELSE 0
        difference == DIR_TO_POS_DIFF[subtable_index + 1][dir + 1]
    IN  <<p[1] + difference[1], p[2] + difference[2]>>

get_dir_from_to(from, to) ==
    CHOOSE d \in Dirs : get_neighbour_pos(from, d) = to

----------------------------------------------------------------------------
(* Map                                                                     *)

max_cost == 30000

\* Option<Dir>: None is the empty sequence, Some(d) the sequence of d
None == <<>>

Some(d) == <<d>>

Cells(sz) == { <<x, y>> : x \in 0..(sz.w - 1), y \in 0..(sz.h - 1) }

is_inboard(sz, p) ==
    LET x == p[1]
        y == p[2]
    IN  x >= 0 /\ y >= 0 /\ x < sz.w /\ y < sz.h

\* the flat offset of Map::tile and Map::tile_mut
Offset_by_height(sz, p) == p[1] + p[2] * sz.h

Offset(sz, p) == p[1] + p[2] * sz.w

tile(sz, ts, p) == ts[Offset(sz, p)]

create_tiles(tiles_count) ==
    [k \in 0..(tiles_count - 1) |-> [cost |-> 0, parent |-> None]]

----------------------------------------------------------------------------
(* Pathfinder                                                              *)

tile_cost_free_plain(class, t) ==
    IF t = "Plain" THEN 0 ELSE 2

tile_cost(class, t) ==
    IF class = "Infantry"
    THEN CASE t = "Plain"    -> 1
           [] t = "Trees"    -> 2
           [] t = "Building" -> 2
    ELSE CASE t = "Plain"    -> 1
           [] t = "Trees"    -> 5
           [] t = "Building" -> 10

\* the cost of reaching the neighbour through the original position
new_cost_wrong_tile(old_cost, terr, u, original_pos, neighbour_pos) ==
    old_cost + tile_cost(u.class, terr[original_pos])

new_cost_of(old_cost, terr, u, original_pos, neighbour_pos) ==
    old_cost + tile_cost(u.class, terr[neighbour_pos])

\* the condition under which the neighbour's tile is relaxed
can_relax_any_budget(cost, new_cost, units_count, move_points) ==
    cost > new_cost /\ units_count = 0

can_relax_any_units(cost, new_cost, units_count, move_points) ==
    cost > new_cost /\ new_cost <= move_points

can_relax_not_strict(cost, new_cost, units_count, move_points) ==
    /\ cost >= new_cost
    /\ units_count = 0
    /\ new_cost <= move_points

can_relax(cost, new_cost, units_count, move_points) ==
    /\ cost > new_cost
    /\ units_count = 0
    /\ new_cost <= move_points

\* the parent direction written into the neighbour's tile
new_parent_swapped(neighbour_pos, original_pos) ==
    Some(get_dir_from_to(original_pos, neighbour_pos))

new_parent(neighbour_pos, original_pos) ==
    Some(get_dir_from_to(neighbour_pos, original_pos))

units_at(occ, p) == IF p \in occ THEN <<p>> ELSE <<>>

\* the outcome [tiles, queue] of one call
process_neighbour_pos_push_once(sz, ts, q, terr, occ, u, original_pos, neighbour_pos) ==
    LET old_cost == tile(sz, ts, original_pos).cost
        t == tile(sz, ts, neighbour_pos)
        new_cost == new_cost_of(old_cost, terr, u, original_pos, neighbour_pos)
        units_count == Len(units_at(occ, neighbour_pos))
    IN  IF can_relax(t.cost, new_cost, units_count, u.move_points)
        THEN [tiles |-> [ts EXCEPT ![Offset(sz, neighbour_pos)] =
                            [cost |-> new_cost,
                             parent |-> new_parent(neighbour_pos,
                                                   original_pos)]],
              queue |-> IF t.cost = max_cost
                        THEN Append(q, neighbour_pos)
                        ELSE q]
        ELSE [tiles |-> ts, queue |-> q]

process_neighbour_pos(sz, ts, q, terr, occ, u, original_pos, neighbour_pos) ==
    LET old_cost == tile(sz, ts, original_pos).cost
        t == tile(sz, ts, neighbour_pos)
        new_cost == new_cost_of(old_cost, terr, u, original_pos, neighbour_pos)
        units_count == Len(units_at(occ, neighbour_pos))
    IN  IF can_relax(t.cost, new_cost, units_count, u.move_points)
        THEN [tiles |-> [ts EXCEPT ![Offset(sz, neighbour_pos)] =
                            [cost |-> new_cost,
                             parent |-> new_parent(neighbour_pos,
                                                   original_pos)]],
              queue |-> Append(q, neighbour_pos)]
        ELSE [tiles |-> ts, queue |-> q]

\* the body of the for loop of try_to_push_neighbours for the index k
try_neighbour(sz, ts, q, terr, occ, u, p, k) ==
    LET dir == from_int(k)
        neighbour_pos == get_neighbour_pos(p, dir)
    IN  IF is_inboard(sz, neighbour_pos)
        THEN process_neighbour_pos(sz, ts, q, terr, occ, u, p, neighbour_pos)
        ELSE [tiles |-> ts, queue |-> q]

\* queue.remove(0): what is left of the queue
dequeue_peek(q) == q

dequeue(q) == Tail(q)

clean_map_keeps_parent(ts) ==
    [k \in DOMAIN ts |-> [cost |-> max_cost, parent |-> ts[k].parent]]

clean_map(ts) ==
    [k \in DOMAIN ts |-> [cost |-> max_cost, parent |-> None]]

push_start_pos_to_queue_no_cost(sz, ts, q, start_pos) ==
    [tiles |-> ts, queue |-> Append(q, start_pos)]

push_start_pos_to_queue(sz, ts, q, start_pos) ==
    [tiles |-> [ts EXCEPT ![Offset(sz, start_pos)] =
                    [cost |-> 0, parent |-> None]],
     queue |-> Append(q, start_pos)]

----------------------------------------------------------------------------
(* get_path: the outcome of the call.  status is "ok" when a MapPath is    *)
(* returned, "assert" when an is_inboard assertion fails, "unwrap" when    *)
(* the parent of a tile with a non-zero cost is None, and "loops" when the *)
(* walk never reaches a tile of cost 0.                                    *)

Reverse(s) == [k \in 1..Len(s) |-> s[Len(s) + 1 - k]]

Failure(st, d) ==
    [status |-> st, destination |-> d, nodes |-> <<>>, total_cost |-> 0]

NoPath == Failure("none", <<0, 0>>)

\* MapPath::destination: the position of the last node
MapPath_destination(p) == p.nodes[Len(p.nodes)][2]

\* the test that ends the walk: the tile of the origin has cost 0
at_origin_no_parent(t) == t.parent = None

at_origin(t) == t.cost = 0

\* the node pushed for a step from old_pos to its parent new_pos
step_node_stale(cost, old_pos, new_pos) == <<cost, old_pos>>

step_node(cost, old_pos, new_pos) == <<cost, new_pos>>

\* the cost recorded for one step of the walk, from p to its parent np
step_cost_recorded(sz, ts, p, np) ==
    tile(sz, ts, p).cost - tile(sz, ts, np).cost

step_cost(sz, ts, p, np) == 1

\* the while loop of get_path; a walk longer than the number of tiles
\* repeats a position and so never ends
RECURSIVE path_walk(_, _, _, _, _, _, _)
path_walk(sz, ts, d, p, nodes, total_cost, fuel) ==
    IF at_origin(tile(sz, ts, p))
    THEN [status |-> "ok", destination |-> d,
          nodes |-> Reverse(nodes), total_cost |-> total_cost]
    ELSE IF fuel = 0
    THEN Failure("loops", d)
    ELSE LET parent_dir == tile(sz, ts, p).parent
         IN  IF parent_dir = None
             THEN Failure("unwrap", d)
             ELSE LET np == get_neighbour_pos(p, parent_dir[1])
                      cost == step_cost(sz, ts, p, np)
                  IN  IF ~is_inboard(sz, np)
                      THEN Failure("assert", d)
                      ELSE path_walk(sz, ts, d, np,
                                     Append(nodes, step_node(cost, p, np)),
                                     total_cost + cost, fuel - 1)

get_path(sz, ts, destination) ==
    IF ~is_inboard(sz, destination)
    THEN Failure("assert", destination)
    ELSE path_walk(sz, ts, destination, destination,
                   << <<0, destination>> >>, 0, sz.w * sz.h)

----------------------------------------------------------------------------
(* The inputs: maps, units and occupancy.                                  *)

\* the subsets of S of at most one element
AtMostOne(S) == {{}} \cup { {c} : c \in S }

Terrains(sz) ==
    IF sz = ExampleSize
    THEN { [p \in Cells(sz) |-> "Plain"] }
    ELSE IF sz = DetourSize
    THEN { [p \in Cells(sz) |-> IF p = <<1, 0>> THEN "Trees" ELSE "Plain"] }
    ELSE UNION { { [p \in Cells(sz) |-> IF p \in R THEN f[p] ELSE "Plain"] :
                     f \in [R -> {"Trees", "Building"}] } :
                 R \in AtMostOne(Cells(sz)) }

MovePoints(class) ==
    IF class = "Infantry"
    THEN 0..MaxMovePoints
    ELSE {6, 9, 11}

Unit(p, class, mp) == [pos |-> p, class |-> class, move_points |-> mp]

\* the (unit, occupied positions) arguments of fill_map; the moving unit
\* stands on the map itself, with at most one other unit
ExampleArgs ==
    { [unit |-> Unit(<<0, 0>>, "Infantry", 3), units |-> {<<0, 0>>}],
      [unit |-> Unit(<<0, 0>>, "Infantry", 3), units |-> {<<0, 0>>, <<1, 1>>}],
      [unit |-> Unit(<<2, 2>>, "Vehicle", 2), units |-> {<<2, 2>>}] }

DetourArgs ==
    { [unit |-> Unit(<<0, 0>>, "Vehicle", 9), units |-> {<<0, 0>>}],
      [unit |-> Unit(<<0, 0>>, "Vehicle", 9), units |-> {<<0, 0>>, <<3, 1>>}] }

FillArgs(sz) ==
    IF sz = ExampleSize
    THEN ExampleArgs
    ELSE IF sz = DetourSize
    THEN DetourArgs
    ELSE UNION { { [unit |-> Unit(p, c, mp), units |-> o \cup {p}] :
                     mp \in MovePoints(c),
                     o \in AtMostOne(Cells(sz) \ {p}) } :
                 p \in Cells(sz), c \in UnitClass }

\* the destinations asked of get_path: every cell and some positions
\* outside the board
Destinations(sz) ==
    Cells(sz) \cup { <<-1, 0>>, <<sz.w, 0>>, <<0, sz.h>> }

----------------------------------------------------------------------------
(* Event and CoreEvent (core/src/event.rs).  Of every Event variant the    *)
(* fields holding unit identifiers are kept; positions, modes, costs and   *)
(* player, sector and object identifiers are left out.  An Option<UnitId>  *)
(* is None (the empty sequence) or Some(id).                               *)

UnitId == 1..MaxUnitId

OptionUnitId == {None} \cup { Some(u) : u \in UnitId }

Event ==
    { [type |-> "Move", unit_id |-> u] : u \in UnitId }
    \cup { [type |-> "EndTurn"] }
    \cup { [type |-> "CreateUnit", unit_info |-> [id |-> u]] : u \in UnitId }
    \cup { [type |-> "AttackUnit",
            attack_info |-> [attacker_id |-> a, defender_id |-> d]] :
              a \in OptionUnitId, d \in UnitId }
    \cup { [type |-> "Reveal", unit_info |-> [id |-> u]] : u \in UnitId }
    \cup { [type |-> "ShowUnit", unit_info |-> [id |-> u]] : u \in UnitId }
    \cup { [type |-> "HideUnit", unit_id |-> u] : u \in UnitId }
    \cup { [type |-> "LoadUnit", transporter_id |-> t, passenger_id |-> u] :
              t \in OptionUnitId, u \in UnitId }
    \cup { [type |-> "UnloadUnit", unit_info |-> [id |-> u],
            transporter_id |-> t] : u \in UnitId, t \in OptionUnitId }
    \cup { [type |-> "Attach", transporter_id |-> t, attached_unit_id |-> u] :
              t \in UnitId, u \in UnitId }
    \cup { [type |-> "Detach", transporter_id |-> t] : t \in UnitId }
    \cup { [type |-> "SetReactionFireMode", unit_id |-> u] : u \in UnitId }
    \cup { [type |-> "SectorOwnerChanged"] }
    \cup { [type |-> "VictoryPoint"] }
    \cup { [type |-> "Smoke", unit_id |-> o] : o \in OptionUnitId }
    \cup { [type |-> "RemoveSmoke"] }

\* Vec<TimedEffect>: the effect lists tried for one unit
EffectLists == { <<>>, <<"effect">>, <<"effect", "effect">> }

\* HashMap<UnitId, Vec<TimedEffect>>
EffectMaps == UNION { [K -> EffectLists] : K \in SUBSET UnitId }

\* the struct CoreEvent: both fields are public, there is no constructor
CoreEvent(event, effects) == [event |-> event, effects |-> effects]

NoCoreEvent == CoreEvent([type |-> "None"], << >>)

----------------------------------------------------------------------------
(* The state machine.                                                      *)

NoUnit == Unit(<<0, 0>>, "Infantry", 0)

\* Pathfinder::new(state.map.size)
Init ==
    /\ size \in Sizes \cup {ExampleSize, DetourSize}
    /\ terrain \in Terrains(size)
    /\ tiles = create_tiles(size.w * size.h)
    /\ queue = <<>>
    /\ unit = NoUnit
    /\ units = {}
    /\ pc = "idle"
    /\ pos = <<0, 0>>
    /\ i = 0
    /\ path = NoPath
    /\ fills = 0
    /\ core_event = NoCoreEvent

\* fill_map up to the first test of the while loop
FillMap ==
    /\ pc = "idle"
    /\ path = NoPath
    /\ fills < MaxFills
    /\ fills' = fills + 1
    /\ \E a \in FillArgs(size) :
          /\ unit' = a.unit
          /\ units' = a.units
          /\ IF Len(queue) = 0
             THEN LET r == push_start_pos_to_queue(size, clean_map(tiles),
                                                   queue, a.unit.pos)
                  IN  /\ tiles' = r.tiles
                      /\ queue' = r.queue
                      /\ pc' = "while"
             ELSE /\ pc' = "panic"
                  /\ UNCHANGED <<tiles, queue>>
    /\ UNCHANGED <<core_event, size, terrain, pos, i, path>>

\* one iteration of the while loop begins: queue.remove(0) and the
\* assertion of try_to_push_neighbours
Pop ==
    /\ pc = "while"
    /\ Len(queue) /= 0
    /\ pos' = Head(queue)
    /\ queue' = dequeue(queue)
    /\ i' = 0
    /\ pc' = IF is_inboard(size, Head(queue)) THEN "for" ELSE "panic"
    /\ UNCHANGED <<core_event, size, terrain, tiles, unit, units, path, fills>>

\* one iteration of the for loop of try_to_push_neighbours
TryNeighbour ==
    /\ pc = "for"
    /\ LET r == try_neighbour(size, tiles, queue, terrain, units, unit,
                               pos, i)
       IN  /\ tiles' = r.tiles
           /\ queue' = r.queue
    /\ IF i + 1 < 6
       THEN /\ i' = i + 1
            /\ UNCHANGED <<pc, pos>>
       ELSE /\ i' = 0
            /\ pos' = <<0, 0>>
            /\ pc' = "while"
    /\ UNCHANGED <<core_event, size, terrain, unit, units, path, fills>>

\* the while loop ends and fill_map returns
FillMapReturnEarly ==
    /\ pc = "while"
    /\ Len(queue) <= 1
    /\ pc' = "idle"
    /\ UNCHANGED <<core_event, size, terrain, tiles, queue, unit, units, pos, i, path,
                   fills>>

FillMapReturn ==
    /\ pc = "while"
    /\ Len(queue) = 0
    /\ pc' = "idle"
    /\ UNCHANGED <<core_event, size, terrain, tiles, queue, unit, units, pos, i, path,
                   fills>>

GetPath ==
    /\ pc = "idle"
    /\ path = NoPath
    /\ \E destination \in Destinations(size) :
          /\ path' = get_path(size, tiles, destination)
          /\ pc' = IF path'.status = "ok" THEN "idle" ELSE "panic"
    /\ UNCHANGED <<core_event, size, terrain, tiles, queue, unit, units, pos, i, fills>>

\* the caller lets go of the MapPath it was given
DropPath ==
    /\ pc = "idle"
    /\ path /= NoPath
    /\ path' = NoPath
    /\ UNCHANGED <<core_event, size, terrain, tiles, queue, unit, units, pc, pos, i,
                   fills>>

Next ==
    \/ FillMap
    \/ Pop
    \/ TryNeighbour
    \/ FillMapReturn
    \/ GetPath
    \/ DropPath

Spec == Init /\ [][Next]_vars

\* fill_map runs to completion once called: the loop is sequential code
FairSpec == Spec /\ WF_vars(Pop) /\ WF_vars(TryNeighbour) /\ WF_vars(FillMapReturn)

\* a CoreEvent is built as a struct literal from any event and any mapping
NewCoreEvent ==
    /\ \E event \in Event, effects \in EffectMaps :
          core_event' = CoreEvent(event, effects)
    /\ UNCHANGED <<size, terrain, tiles, queue, unit, units, pc, pos, i, path,
                   fills>>

EventInit ==
    /\ Init
    /\ size = [w |-> 2, h |-> 2]
    /\ terrain = [p \in Cells(size) |-> "Plain"]

EventNext == NewCoreEvent

\* the event vocabulary on its own: the Pathfinder stays as constructed
EventSpec == EventInit /\ [][EventNext]_vars

----------------------------------------------------------------------------
(* Reference notions used by the properties.                               *)

Neighbours(sz, p) ==
    { c \in Cells(sz) : \E d \in Dirs : get_neighbour_pos(p, d) = c }

Abs(n) == IF n < 0 THEN -n ELSE n

\* hex distance through cube coordinates (rows with an even y are the ones
\* shifted by half a cell)
CubeQ(p) == p[1] - ((p[2] + (p[2] % 2)) \div 2)

HexDistance(a, b) ==
    LET dq == CubeQ(a) - CubeQ(b)
        dr == a[2] - b[2]
    IN  (Abs(dq) + Abs(dr) + Abs(dq + dr)) \div 2

SetMin(S) == CHOOSE m \in S : \A n \in S : m <= n

\* one more step allowed: from the least costs prev of the walks of at most
\* k steps to those of the walks of at most k + 1 steps.  A walk enters only
\* in-board unoccupied cells and its cumulative cost never exceeds the move
\* points; max_cost stands for no walk
WalkStep(sz, terr, occ, u, prev) ==
    [c \in Cells(sz) |->
        SetMin({prev[c]} \cup
               { prev[p] + tile_cost(u.class, terr[c]) :
                   p \in { n \in Neighbours(sz, c) :
                             /\ prev[n] < max_cost
                             /\ c \notin occ
                             /\ prev[n] + tile_cost(u.class, terr[c])
                                    <= u.move_points } })]

RECURSIVE WalkCosts(_, _, _, _, _, _)
WalkCosts(sz, terr, occ, u, prev, k) ==
    IF k = 0
    THEN prev
    ELSE LET next == WalkStep(sz, terr, occ, u, prev)
         IN  IF next = prev
             THEN prev
             ELSE WalkCosts(sz, terr, occ, u, next, k - 1)

\* the least cost of a walk from u.pos to every cell (a cheapest walk
\* never enters a cell twice, so w * h steps are enough)
MinWalkCost(sz, terr, occ, u) ==
    WalkCosts(sz, terr, occ, u,
              [c \in Cells(sz) |-> IF c = u.pos THEN 0 ELSE max_cost],
              sz.w * sz.h)

filled == fills > 0

Returned == filled /\ pc = "idle"

IsExample ==
    /\ size = ExampleSize
    /\ unit = Unit(<<0, 0>>, "Infantry", 3)
    /\ units = {<<0, 0>>}

----------------------------------------------------------------------------
(* C1: when fill_map returns, the cost recorded in every in-board cell is  *)
(* the least cost of a walk from unit.pos that enters only unoccupied      *)
(* cells within the move points, or the sentinel 30000 when there is none; *)
(* for the infantry unit with 3 move points at (0,0) of the empty plain    *)
(* 5x5 map, a cell within hex distance 3 costs its distance and any other  *)
(* cell holds the sentinel.                                                *)
FillMapMinimalCosts ==
    Returned =>
        /\ LET best == MinWalkCost(size, terrain, units, unit)
           IN  \A c \in Cells(size) : tile(size, tiles, c).cost = best[c]
        /\ IsExample =>
              \A c \in Cells(size) :
                  tile(size, tiles, c).cost =
                      IF HexDistance(unit.pos, c) <= 3
                      THEN HexDistance(unit.pos, c)
                      ELSE max_cost

\* the 5x5 scenario has run: (0,3) at distance 3 is reached, (4,4) is not
FillMapMinimalCostsWitness ==
    /\ Returned
    /\ IsExample
    /\ HexDistance(unit.pos, <<0, 3>>) = 3
    /\ tile(size, tiles, <<0, 3>>).cost = 3
    /\ tile(size, tiles, <<4, 4>>).cost = max_cost

(* C2: budget respect.  In every state during and after fill_map each      *)
(* recorded cost is the sentinel 30000 or at most unit.move_points.        *)
BudgetRespect ==
    filled =>
        \A k \in DOMAIN tiles :
            tiles[k].cost = max_cost \/ tiles[k].cost <= unit.move_points

\* a vehicle with 9 move points next to a free Building cell (cost 10)
BudgetRespectWitness ==
    /\ Returned
    /\ unit.class = "Vehicle"
    /\ unit.move_points = 9
    /\ \E c \in Neighbours(size, unit.pos) :
          /\ terrain[c] = "Building"
          /\ c \notin units
          /\ tile(size, tiles, c).cost = max_cost

(* C3: occupancy exclusion.  In every state during and after fill_map an   *)
(* occupied cell other than unit.pos keeps the sentinel cost and parent    *)
(* None, and the origin has cost 0.                                        *)
OccupancyExclusion ==
    filled =>
        /\ \A c \in units \ {unit.pos} :
              tile(size, tiles, c) = [cost |-> max_cost, parent |-> None]
        /\ tile(size, tiles, unit.pos).cost = 0

\* an occupied neighbour of the origin stayed unreached although the budget
\* would have allowed entering it, and a cell behind it was reached
OccupancyExclusionWitness ==
    /\ Returned
    /\ \E c \in Neighbours(size, unit.pos) \cap units :
          /\ tile_cost(unit.class, terrain[c]) <= unit.move_points
          /\ tile(size, tiles, c).cost = max_cost
          /\ \E e \in Neighbours(size, c) \ Neighbours(size, unit.pos) :
                /\ e /= unit.pos
                /\ tile(size, tiles, e).cost < max_cost

(* C4: path validity (cost).  For every path returned by get_path after a  *)
(* completed fill_map, total_cost equals the cost recorded in the tile of  *)
(* the destination, whatever the terrain and the unit class.               *)
PathCostIsRecordedCost ==
    (filled /\ path.status = "ok") =>
        path.total_cost = tile(size, tiles, path.destination).cost

(* C5: path validity (adjacency).  For every path returned by get_path     *)
(* after a completed fill_map, two consecutive positions of nodes() are    *)
(* distinct in-board cells that are hex neighbours.                        *)
PathAdjacency ==
    (filled /\ path.status = "ok") =>
        \A k \in 1..(Len(path.nodes) - 1) :
            LET a == path.nodes[k][2]
                b == path.nodes[k + 1][2]
            IN  /\ a /= b
                /\ is_inboard(size, a)
                /\ is_inboard(size, b)
                /\ \E d \in Dirs : get_neighbour_pos(a, d) = b

\* a returned path of at least three positions
PathAdjacencyWitness ==
    /\ filled
    /\ path.status = "ok"
    /\ Len(path.nodes) >= 3

(* C6: after a completed fill_map, get_path(d) returns no path when d is   *)
(* outside the board (the is_inboard assertion fails) or when the cost     *)
(* recorded for d is still the sentinel (unwrap of the missing parent).    *)
GetPathFailsWhenUnreached ==
    (filled /\ path.status /= "none") =>
        IF ~is_inboard(size, path.destination)
        THEN path.status = "assert"
        ELSE tile(size, tiles, path.destination).cost = max_cost
                 => path.status = "unwrap"

\* get_path was asked for an in-board cell the last fill did not reach,
\* on a Pathfinder whose earlier fill had reached that cell
GetPathFailsWhenUnreachedWitness ==
    /\ fills = 2
    /\ path.status = "unwrap"
    /\ is_inboard(size, path.destination)
    /\ tile(size, tiles, path.destination).cost = max_cost

(* C7: on a Pathfinder built by Pathfinder::new on which fill_map has not  *)
(* been invoked, get_path(d) fails for every in-board d: it never returns  *)
(* a zero-cost single-node path.                                           *)
FreshPathfinderHasNoPath ==
    (fills = 0 /\ path.status /= "none") => path.status /= "ok"

----------------------------------------------------------------------------
(* A whole fill_map on a Pathfinder that Pathfinder::new has just built.   *)

\* try_to_push_neighbours from the loop index k on
RECURSIVE try_to_push_neighbours(_, _, _, _, _, _, _)
try_to_push_neighbours(sz, st, terr, occ, u, p, k) ==
    IF k = 6
    THEN st
    ELSE try_to_push_neighbours(
             sz, try_neighbour(sz, st.tiles, st.queue, terr, occ, u, p, k),
             terr, occ, u, p, k + 1)

\* the while loop of fill_map
RECURSIVE fill_loop(_, _, _, _, _)
fill_loop(sz, st, terr, occ, u) ==
    IF Len(st.queue) = 0
    THEN st
    ELSE fill_loop(
             sz,
             try_to_push_neighbours(
                 sz, [tiles |-> st.tiles, queue |-> dequeue(st.queue)],
                 terr, occ, u, Head(st.queue), 0),
             terr, occ, u)

FreshFill(sz, terr, occ, u) ==
    fill_loop(sz,
              push_start_pos_to_queue(
                  sz, clean_map(create_tiles(sz.w * sz.h)), <<>>, u.pos),
              terr, occ, u).tiles

(* C8: determinism and no stale data.  The cost field and the parents left *)
(* by fill_map, and the outcome of a following get_path(d), are those      *)
(* obtained for the same map, unit and occupancy on a freshly constructed  *)
(* Pathfinder, whatever fill_map calls were made before on this one.       *)
FillMapIgnoresEarlierFills ==
    (filled /\ pc \in {"idle", "panic"}) =>
        LET fresh == FreshFill(size, terrain, units, unit)
        IN  /\ tiles = fresh
            /\ path.status /= "none" =>
                  path = get_path(size, fresh, path.destination)

\* the second fill_map on this Pathfinder has returned and get_path has
\* given a path into a board on which that fill left some cell unreached
FillMapIgnoresEarlierFillsWitness ==
    /\ fills = 2
    /\ pc = "idle"
    /\ path.status = "ok"
    /\ Len(path.nodes) >= 2
    /\ \E k \in DOMAIN tiles : tiles[k].cost = max_cost

(* C9: non-negativity and monotonicity.  After a completed fill_map every  *)
(* recorded cost is non-negative, and every reached cell other than the    *)
(* origin has a parent cell whose recorded cost is strictly lower; along a *)
(* returned path the recorded costs strictly increase from the origin.     *)
CostsIncreaseFromOrigin ==
    Returned =>
        /\ \A k \in DOMAIN tiles : tiles[k].cost >= 0
        /\ \A c \in Cells(size) :
              (c /= unit.pos /\ tile(size, tiles, c).cost < max_cost) =>
                  /\ tile(size, tiles, c).parent /= None
                  /\ LET p == get_neighbour_pos(
                                  c, tile(size, tiles, c).parent[1])
                     IN  /\ is_inboard(size, p)
                         /\ tile(size, tiles, p).cost
                                < tile(size, tiles, c).cost
        /\ path.status = "ok" =>
              \A k \in 1..(Len(path.nodes) - 1) :
                  tile(size, tiles, path.nodes[k][2]).cost
                      < tile(size, tiles, path.nodes[k + 1][2]).cost

\* a path over three cells whose recorded costs rise by unequal amounts
CostsIncreaseFromOriginWitness ==
    /\ Returned
    /\ path.status = "ok"
    /\ Len(path.nodes) = 3
    /\ tile(size, tiles, path.nodes[2][2]).cost = 2
    /\ tile(size, tiles, path.nodes[3][2]).cost = 3

(* C10: fill_map terminates.  Once called, the work queue eventually       *)
(* becomes empty and fill_map returns.                                     *)
FillMapTerminates ==
    (pc \in {"while", "for"}) ~> (pc = "idle" /\ Len(queue) = 0)

\* a pass in which a cell waits in the work queue twice at once
FillMapTerminatesWitness ==
    /\ pc \in {"while", "for"}
    /\ \E j, k \in DOMAIN queue : j < k /\ queue[j] = queue[k]

----------------------------------------------------------------------------
(* The units an Event refers to.                                           *)

OptionSet(o) == IF o = None THEN {} ELSE {o[1]}

ReferencedUnits(event) ==
    CASE event.type = "Move" -> {event.unit_id}
      [] event.type = "CreateUnit" -> {event.unit_info.id}
      [] event.type = "AttackUnit" ->
             OptionSet(event.attack_info.attacker_id)
                 \cup {event.attack_info.defender_id}
      [] event.type = "Reveal" -> {event.unit_info.id}
      [] event.type = "ShowUnit" -> {event.unit_info.id}
      [] event.type = "HideUnit" -> {event.unit_id}
      [] event.type = "LoadUnit" ->
             OptionSet(event.transporter_id) \cup {event.passenger_id}
      [] event.type = "UnloadUnit" ->
             OptionSet(event.transporter_id) \cup {event.unit_info.id}
      [] event.type = "Attach" ->
             {event.transporter_id, event.attached_unit_id}
      [] event.type = "Detach" -> {event.transporter_id}
      [] event.type = "SetReactionFireMode" -> {event.unit_id}
      [] event.type = "Smoke" -> OptionSet(event.unit_id)
      [] OTHER -> {}

(* C11: no orphan effects.  The unit keys of the effects mapping of every  *)
(* CoreEvent that can be constructed are among the units its Event refers  *)
(* to.                                                                     *)
NoOrphanEffects ==
    DOMAIN core_event.effects \subseteq ReferencedUnits(core_event.event)

----------------------------------------------------------------------------
\* the neighbour the for loop of try_to_push_neighbours looks at next
NextNeighbour == get_neighbour_pos(pos, from_int(i))

\* the cost the next relaxation offers to the neighbour
OfferedCost ==
    tile(size, tiles, pos).cost + tile_cost(unit.class, terrain[NextNeighbour])

\* the step appends c to the queue and lowers the cost of the tile of c,
\* leaving every other tile alone
PushesLowered(c) ==
    /\ queue' = Append(queue, c)
    /\ tiles'[Offset(size, c)].cost < tiles[Offset(size, c)].cost
    /\ \A k \in DOMAIN tiles : k /= Offset(size, c) => tiles'[k] = tiles[k]

(* C12: within one fill_map pass a cell is pushed onto the queue exactly   *)
(* when a relaxation strictly lowers its recorded cost: a step of the for  *)
(* loop either appends the neighbour and lowers the cost of its tile alone,*)
(* or changes neither the tiles nor the queue; an offer of an equal or     *)
(* higher cost changes nothing; taking a position from the queue changes   *)
(* no tile; and no recorded cost increases in any step of the pass.        *)
PushOnlyOnStrictImprovement ==
    [][ /\ pc = "for" =>
              /\ \/ PushesLowered(NextNeighbour)
                 \/ UNCHANGED <<tiles, queue>>
              /\ ( /\ is_inboard(size, NextNeighbour)
                   /\ OfferedCost >= tile(size, tiles, NextNeighbour).cost )
                 => UNCHANGED <<tiles, queue>>
        /\ pc = "while" => /\ tiles' = tiles
                           /\ \/ queue' = queue
                              \/ queue /= <<>> /\ queue' = Tail(queue)
        /\ pc \in {"while", "for"} =>
              \A k \in DOMAIN tiles : tiles'[k].cost <= tiles[k].cost
      ]_vars

\* the for loop is about to offer a reached, free neighbour, within the
\* budget, exactly the cost it already has
PushOnlyOnStrictImprovementWitness ==
    /\ pc = "for"
    /\ is_inboard(size, NextNeighbour)
    /\ NextNeighbour \notin units
    /\ OfferedCost <= unit.move_points
    /\ OfferedCost = tile(size, tiles, NextNeighbour).cost
    /\ tile(size, tiles, pos).parent /= None

----------------------------------------------------------------------------
(* C13: get_path counts 1 for every step: the total cost of every returned *)
(* path is the number of parent steps walked, its length less one,         *)
(* whatever the terrain of the cells on the path costs.                    *)
TotalCostIsStepCount ==
    path.status = "ok" => path.total_cost = Len(path.nodes) - 1

\* a returned path of two steps or more to a cell whose recorded cost is
\* higher than the number of steps
TotalCostIsStepCountWitness ==
    /\ filled
    /\ path.status = "ok"
    /\ Len(path.nodes) >= 3
    /\ tile(size, tiles, path.destination).cost > Len(path.nodes) - 1

----------------------------------------------------------------------------
\* the cells that have a recorded cost
Reached == { c \in Cells(size) : tile(size, tiles, c).cost /= max_cost }

\* the positions of the nodes of a path, in order
Positions(p) == [k \in 1..Len(p.nodes) |-> p.nodes[k][2]]

NoRepeat(s) == \A j, k \in 1..Len(s) : s[j] = s[k] => j = k

(* C14: after a completed fill_map, the parent walk of get_path from every *)
(* reached destination ends at a cell of cost 0 after at most              *)
(* width * height - 1 steps and never meets the same cell twice: get_path  *)
(* returns a path, and the path visits no cell twice.                      *)
PathWalkIsBounded ==
    Returned =>
        \A d \in Reached :
            LET p == get_path(size, tiles, d)
            IN  /\ p.status = "ok"
                /\ Len(p.nodes) - 1 <= size.w * size.h - 1
                /\ NoRepeat(Positions(p))

\* a returned path of three steps
PathWalkIsBoundedWitness ==
    /\ Returned
    /\ path.status = "ok"
    /\ path.destination \in Reached
    /\ Len(path.nodes) = 4
    /\ NoRepeat(Positions(path))

----------------------------------------------------------------------------
(* C15: in every path get_path returns after a fill, the first node, the   *)
(* origin, carries the incremental cost 0 and every later node carries the *)
(* cost of the step that enters it, from its predecessor on the path.      *)
OriginNodeCostsNothing ==
    (filled /\ path.status = "ok") =>
        /\ path.nodes[1][1] = 0
        /\ \A k \in 2..Len(path.nodes) :
              path.nodes[k][1] =
                  step_cost(size, tiles, path.nodes[k][2], path.nodes[k - 1][2])

----------------------------------------------------------------------------
(* C16: after a completed fill_map(unit, state) the origin unit.pos is the *)
(* only cell of recorded cost 0; so get_path(d), for every reached d,      *)
(* returns a path whose first node is unit.pos and whose last node, its    *)
(* destination(), is d, and get_path(unit.pos) returns the path of the one *)
(* node unit.pos with total cost 0.                                        *)
PathsStartAtOrigin ==
    Returned =>
        /\ \A c \in Cells(size) :
              tile(size, tiles, c).cost = 0 <=> c = unit.pos
        /\ \A d \in Reached :
              LET p == get_path(size, tiles, d)
              IN  /\ p.status = "ok"
                  /\ p.nodes[1][2] = unit.pos
                  /\ MapPath_destination(p) = d
        /\ LET p == get_path(size, tiles, unit.pos)
           IN  /\ p.status = "ok"
               /\ Positions(p) = <<unit.pos>>
               /\ p.total_cost = 0

\* a path returned for a reached cell that is not the origin, from the
\* origin to that cell, the origin not being the corner (0, 0)
PathsStartAtOriginWitness ==
    /\ Returned
    /\ path.status = "ok"
    /\ path.destination \in Reached \ {unit.pos}
    /\ unit.pos /= <<0, 0>>
    /\ path.nodes[1][2] = unit.pos
    /\ MapPath_destination(path) = path.destination

----------------------------------------------------------------------------
\* the cell the parent direction of the reached cell c designates
ParentOf(c) == get_neighbour_pos(c, tile(size, tiles, c).parent[1])

\* what the recorded cost of the parent of c and the terrain of c add up to
CostThroughParent(c) ==
    tile(size, tiles, ParentOf(c)).cost + tile_cost(unit.class, terrain[c])

\* the parent of the reached cell c is a reached neighbour of c on the board
ParentIsReachedNeighbour(c) ==
    /\ tile(size, tiles, c).parent /= None
    /\ is_inboard(size, ParentOf(c))
    /\ HexDistance(c, ParentOf(c)) = 1
    /\ ParentOf(c) \in Reached

(* C17: when fill_map returns, the parent direction of every reached cell  *)
(* c other than the origin designates an adjacent cell p of the board that *)
(* is reached, and cost(c) = cost(p) + the terrain cost of c for the       *)
(* unit's class; in every state of the pass the parent is such a cell and  *)
(* cost(c) >= cost(p) + the terrain cost of c.                             *)
ParentCostConsistency ==
    (filled /\ pc \in {"idle", "while", "for"}) =>
        \A c \in Reached \ {unit.pos} :
            /\ ParentIsReachedNeighbour(c)
            /\ tile(size, tiles, c).cost >= CostThroughParent(c)
            /\ pc = "idle" => tile(size, tiles, c).cost = CostThroughParent(c)

\* during a pass the cost of a parent has been lowered after its child was
\* relaxed through it
ParentCostConsistencyWitness ==
    /\ filled
    /\ pc \in {"while", "for"}
    /\ \E c \in Reached \ {unit.pos} :
          /\ ParentIsReachedNeighbour(c)
          /\ tile(size, tiles, c).cost > CostThroughParent(c)

----------------------------------------------------------------------------
(* C18: the assertion at the top of fill_map never fails, whatever the     *)
(* sequence of fill_map and get_path calls on one Pathfinder: between      *)
(* calls the queue is empty, the only panics are those of get_path, and    *)
(* get_path changes neither the queue nor the tiles.                       *)
QueueEmptyBetweenCalls ==
    /\ [](pc = "idle" => Len(queue) = 0)
    /\ [](pc = "panic" => path.status \in {"assert", "unwrap", "loops"})
    /\ [][path' /= path => UNCHANGED <<tiles, queue>>]_vars

\* the second fill_map on a Pathfinder has passed its assertion and pushed
\* the origin onto the queue the first one left empty
QueueEmptyBetweenCallsWitness ==
    /\ fills = 2
    /\ pc = "while"
    /\ queue = <<unit.pos>>
    /\ Reached = {unit.pos}

----------------------------------------------------------------------------
(* C19: with unit.pos on the board, every position through which fill_map  *)
(* or get_path reaches a tile is on the board: the positions in the queue  *)
(* and the position the for loop works from are on the board, so the       *)
(* assertion of try_to_push_neighbours holds; the flat offset x + y*width  *)
(* of a position on the board lies within the tile array and no two        *)
(* positions on the board share one; and the in-board assertions of        *)
(* get_path fail for no reached destination, only for a destination that   *)
(* is itself outside the board.                                            *)
FlatOffsetWithinTiles ==
    /\ DOMAIN tiles = 0..(size.w * size.h - 1)
    /\ \A c \in Cells(size) : Offset(size, c) \in DOMAIN tiles
    /\ \A a, b \in Cells(size) :
          Offset(size, a) = Offset(size, b) => a = b
    /\ \A k \in 1..Len(queue) : is_inboard(size, queue[k])
    /\ pc = "for" => is_inboard(size, pos)
    /\ filled => is_inboard(size, unit.pos)
    /\ Returned =>
          \A d \in Reached : get_path(size, tiles, d).status /= "assert"
    /\ (filled /\ path.status = "assert") =>
          ~is_inboard(size, path.destination)

\* the for loop is about to look at a neighbour outside the board whose
\* flat offset is nevertheless an index of the tile array
FlatOffsetWithinTilesWitness ==
    /\ pc = "for"
    /\ is_inboard(size, pos)
    /\ ~is_inboard(size, NextNeighbour)
    /\ Offset(size, NextNeighbour) \in DOMAIN tiles

====
